---- MODULE Spec2Model ----
(***************************************************************************)
(* State-machine model of stream-file: the segment cache (CachePool and    *)
(* CacheItem), the download backend (Backend / DownloadBackend over        *)
(* TinyEvents) and the coordinator (StreamFile) that couples one request   *)
(* at a time to the cache.                                                 *)
(*                                                                         *)
(* Promise continuations are separate steps: a settled promise leaves its  *)
(* continuation pending, and the continuation runs as its own action.      *)
(* Public calls may arrive between any two steps.                          *)
(***************************************************************************)
EXTENDS Integers, Sequences, FiniteSets, TLC

\* ------------------------------------------------------------------ bounds
FileLen == 4        \* length of the file served by the origin
ChunkSize == 2      \* chunkSize option passed to the StreamFile constructor
MaxBackends == 2    \* Backend objects alive at the same time
MaxOps == 1         \* promises of load / seek / buffer / read pending at the same time
MaxDepth == 2       \* nesting of buffer() inside its own continuation
PoolEnd == 4        \* highest offset a direct client of the pool seeks or writes to

\* Infinity, the default `max` of bytesReadable / bytesAvailable
Infinity == FileLen + ChunkSize + 1

\* cacheSize options the stream is constructed with (0 is the default)
CacheSizes == {0}

\* byte served by the origin at file offset o (0-based); all distinct
FileByte(o) == o + 1
\* the bytes of the file in [a, b)
FileBytes(a, b) == [k \in 1..(b - a) |-> FileByte(a + k - 1)]

Min(a, b) == IF a <= b THEN a ELSE b

\* ------------------------------------------------------------- CacheItem
\* new CacheItem({eof: true}) / ({start, end}) / ({start, end, buffer})
EofItem(s) == [start |-> s, end |-> s, empty |-> TRUE, eof |-> TRUE,
               data |-> <<>>, ts |-> 0]
EmptyItem(s, e) == [start |-> s, end |-> e, empty |-> TRUE, eof |-> FALSE,
                    data |-> <<>>, ts |-> 0]
BufferItem(s, buf, now) == [start |-> s, end |-> s + Len(buf), empty |-> FALSE,
                            eof |-> FALSE, data |-> buf, ts |-> now]

ItemLength(it) == it.end - it.start

\* a contains that forgets that the Eof item has no end
ContainsInsideOnly(it, off) == off >= it.start /\ off < it.end

\* CacheItem.contains
Contains(it, off) == off >= it.start /\ (off < it.end \/ it.eof)

\* CacheItem.split: the two halves of an empty item
SplitItem(it, off) ==
  << EmptyItem(it.start, off),
     IF it.eof THEN EofItem(off) ELSE EmptyItem(off, it.end) >>

\* CacheItem.first from list position i: index of the first item containing
\* off, 0 for null
RECURSIVE FirstContaining(_, _, _)
FirstContaining(items, i, off) ==
  IF i = 0 \/ i > Len(items) THEN 0
  ELSE IF Contains(items[i], off) THEN i
  ELSE FirstContaining(items, i + 1, off)

\* CacheItem.last for the callback of bytesReadable:
\*   (item) => !item.empty && item.start <= limit
RECURSIVE LastFilled(_, _, _, _)
LastFilled(items, i, limit, last) ==
  IF i = 0 \/ i > Len(items) THEN last
  ELSE IF ~items[i].empty /\ items[i].start <= limit
       THEN LastFilled(items, i + 1, limit, i)
       ELSE last

\* CacheItem.last for the callback of bytesWritable:
\*   (item) => item.empty && item.start <= limit
RECURSIVE LastEmpty(_, _, _, _)
LastEmpty(items, i, limit, last) ==
  IF i = 0 \/ i > Len(items) THEN last
  ELSE IF items[i].empty /\ items[i].start <= limit
       THEN LastEmpty(items, i + 1, limit, i)
       ELSE last

\* CacheItem.last for the callback of consolidate:
\*   (item) => item.empty && !item.eof
RECURSIVE LastHole(_, _, _)
LastHole(items, i, last) ==
  IF i = 0 \/ i > Len(items) THEN last
  ELSE IF items[i].empty /\ ~items[i].eof
       THEN LastHole(items, i + 1, i)
       ELSE last

\* ------------------------------------------------------------- CachePool
\* A pool is a record: the linked list as a sequence in the order of the
\* next links, the head and tail pointers and the two cursors as list
\* positions (0 is null or an item that is no longer linked), the two
\* offsets and the cacheSize option.
NewPool(cacheSize) ==
  [items |-> << EofItem(0) >>, head |-> 1, tail |-> 1,
   readOffset |-> 0, readCursor |-> 1,
   writeOffset |-> 0, writeCursor |-> 1, cacheSize |-> cacheSize]

\* the next value of Date.now(): later than every timestamp in the list
Now(c) ==
  LET stamps == {c.items[i].ts : i \in 1..Len(c.items)}
  IN  1 + (CHOOSE m \in stamps \cup {0} : \A s \in stamps : s <= m)

\* timestamps are only compared with each other (gc sorts by them), so they
\* are kept as dense ranks
Ranked(c) ==
  LET stamps == {c.items[i].ts : i \in 1..Len(c.items)} \ {0}
      rank(t) == IF t = 0 THEN 0 ELSE Cardinality({s \in stamps : s <= t})
  IN  [c EXCEPT !.items = [i \in 1..Len(c.items) |->
                             [c.items[i] EXCEPT !.ts = rank(c.items[i].ts)]]]

\* a bytesReadable that stops at the end of the item under the read cursor
bytesReadableOneItem(c, max) ==
  IF c.readCursor # 0 /\ ~c.items[c.readCursor].empty
  THEN Min(max, c.items[c.readCursor].end - c.readOffset) ELSE 0

\* CachePool.bytesReadable
bytesReadable(c, max) ==
  LET last == LastFilled(c.items, c.readCursor, c.readOffset + max, 0)
  IN  IF last # 0 THEN Min(max, c.items[last].end - c.readOffset) ELSE 0

\* a bytesWritable that takes the room up to max for granted
bytesWritableAlwaysMax(c, max) == max

\* CachePool.bytesWritable
bytesWritable(c, max) ==
  IF c.writeCursor # 0 /\ c.items[c.writeCursor].eof THEN max
  ELSE LET last == LastEmpty(c.items, c.writeCursor, c.writeOffset + max, 0)
       IN  IF last # 0 THEN Min(max, c.items[last].end - c.writeOffset) ELSE 0

\* a seekRead that leaves the read head where it is
seekReadStays(c, offset) == c

\* CachePool.seekRead (the Eof item contains every offset from its start on,
\* so a target is always found for offset >= 0)
seekRead(c, offset) ==
  [c EXCEPT !.readOffset = offset,
            !.readCursor = FirstContaining(c.items, c.head, offset)]

\* CachePool.seekWrite
seekWrite(c, offset) ==
  [c EXCEPT !.writeOffset = offset,
            !.writeCursor = FirstContaining(c.items, c.head, offset)]

\* where the pointer p of the old list points after positions i..j have
\* been replaced by n items: behind them it moves along, inside them it is
\* left on an unlinked item
Moved(p, i, j, n) ==
  IF p < i THEN p ELSE IF p > j THEN p + n - (j - i + 1) ELSE 0

\* a splice that leaves the tail pointer on the item it has unlinked
SpliceLeavesTail(c, i, j, new) ==
  LET items == SubSeq(c.items, 1, i - 1) \o new
                 \o SubSeq(c.items, j + 1, Len(c.items))
      head == IF i = c.head THEN i ELSE Moved(c.head, i, j, Len(new))
  IN  [c EXCEPT !.items = items, !.head = head,
                !.tail = Moved(c.tail, i, j, Len(new)),
                !.readCursor = FirstContaining(items, head, c.readOffset),
                !.writeCursor = FirstContaining(items, head, c.writeOffset)]

\* CachePool.splice: replace positions i..j of the list by `new`, move head
\* and tail if they were the ends of the replaced chain, and find both
\* cursors again from the head
Splice(c, i, j, new) ==
  LET items == SubSeq(c.items, 1, i - 1) \o new
                 \o SubSeq(c.items, j + 1, Len(c.items))
      head == IF i = c.head THEN i ELSE Moved(c.head, i, j, Len(new))
      tail == IF j = c.tail THEN i + Len(new) - 1
              ELSE Moved(c.tail, i, j, Len(new))
  IN  [c EXCEPT !.items = items, !.head = head, !.tail = tail,
                !.readCursor = FirstContaining(items, head, c.readOffset),
                !.writeCursor = FirstContaining(items, head, c.writeOffset)]

\* CachePool.split
Split(c, i, offset) == Splice(c, i, i, SplitItem(c.items[i], offset))

\* CachePool.consolidate: merge the run of holes starting at position first
Consolidate(c, first) ==
  LET last == LastHole(c.items, first, 0)
  IN  Splice(c, first, last,
             << EmptyItem(c.items[first].start, c.items[last].end) >>)

\* CachePool.remove: the item at position i becomes a hole, merged with the
\* holes next to it (never with the Eof item)
Remove(c, i) ==
  LET c1 == Splice(c, i, i, << EmptyItem(c.items[i].start, c.items[i].end) >>)
      prevHole == i > 1 /\ c1.items[i - 1].empty
      c2 == IF prevHole THEN Consolidate(c1, i - 1) ELSE c1
      k  == IF prevHole THEN i - 1 ELSE i
      nextHole == k < Len(c2.items) /\ c2.items[k + 1].empty
                    /\ ~c2.items[k + 1].eof
      c3 == IF nextHole THEN Consolidate(c2, k) ELSE c2
  IN  IF c3.items[k].start = 0 THEN [c3 EXCEPT !.head = k] ELSE c3

\* position of the filled item that starts at offset s (0 if none)
FilledAt(c, s) ==
  LET hits == {i \in 1..Len(c.items) :
                 ~c.items[i].empty /\ c.items[i].start = s}
  IN  IF hits = {} THEN 0 ELSE CHOOSE i \in hits : TRUE

\* total of the lengths of the filled items (cachedBytes in gc)
RECURSIVE SumFilled(_, _)
SumFilled(items, i) ==
  IF i > Len(items) THEN 0
  ELSE (IF items[i].empty THEN 0 ELSE ItemLength(items[i]))
         + SumFilled(items, i + 1)

CachedBytes(c) == SumFilled(c.items, 1)

\* a candidate test that also takes the item that ends at the read offset
GcCandidateAtHead(c, it) == ~it.empty /\ it.end <= c.readOffset

\* a candidate test that forgets the hot range
GcCandidateAny(c, it) == ~it.empty

\* gc's test for an item outside the hot range.  The pool never assigns
\* this.chunkSize, so readOffset + chunkSize is NaN and the second
\* comparison, item.start > NaN, is always false.
GcCandidate(c, it) == ~it.empty /\ it.end < c.readOffset

\* a sort that puts the newest candidate first
RECURSIVE SortedNewestFirst(_, _)
SortedNewestFirst(c, cands) ==
  IF cands = {} THEN << >>
  ELSE LET m == CHOOSE i \in cands :
                  \A j \in cands :
                     \/ c.items[i].ts > c.items[j].ts
                     \/ (c.items[i].ts = c.items[j].ts /\ i <= j)
       IN  << c.items[m].start >> \o SortedNewestFirst(c, cands \ {m})

\* candidates.sort by timestamp, as a sequence of start offsets; equal
\* timestamps keep list order
RECURSIVE SortedCandidates(_, _)
SortedCandidates(c, cands) ==
  IF cands = {} THEN << >>
  ELSE LET m == CHOOSE i \in cands :
                  \A j \in cands :
                     \/ c.items[i].ts < c.items[j].ts
                     \/ (c.items[i].ts = c.items[j].ts /\ i <= j)
       IN  << c.items[m].start >> \o SortedCandidates(c, cands \ {m})

\* the eviction loop of gc over the sorted candidates
RECURSIVE GcLoop(_, _, _)
GcLoop(c, cands, cachedBytes) ==
  IF cands = << >> \/ cachedBytes <= c.cacheSize THEN c
  ELSE LET i == FilledAt(c, Head(cands))
       IN  GcLoop(Remove(c, i), Tail(cands),
                  cachedBytes - ItemLength(c.items[i]))

\* CachePool.gc
Gc(c) ==
  LET cands == {i \in 1..Len(c.items) : GcCandidate(c, c.items[i])}
  IN  IF CachedBytes(c) > c.cacheSize
      THEN GcLoop(c, SortedCandidates(c, cands), CachedBytes(c))
      ELSE c

\* CacheItem.last for the callback of ranges: (i) => !i.empty
RECURSIVE LastOfRun(_, _, _)
LastOfRun(items, i, last) ==
  IF i = 0 \/ i > Len(items) THEN last
  ELSE IF ~items[i].empty THEN LastOfRun(items, i + 1, i) ELSE last

\* a loop of ranges that reports every filled item as a range of its own
RECURSIVE RangesPerItem(_, _)
RangesPerItem(items, i) ==
  IF i = 0 \/ i > Len(items) THEN << >>
  ELSE IF items[i].empty THEN RangesPerItem(items, i + 1)
  ELSE << << items[i].start, items[i].end >> >> \o RangesPerItem(items, i + 1)

\* the loop of CachePool.ranges from list position i
RECURSIVE RangesFrom(_, _)
RangesFrom(items, i) ==
  IF i = 0 \/ i > Len(items) THEN << >>
  ELSE IF items[i].empty THEN RangesFrom(items, i + 1)
  ELSE LET last == LastOfRun(items, i, 0)
       IN  << << items[i].start, items[last].end >> >>
             \o RangesFrom(items, last + 1)

\* CachePool.ranges: the cached ranges as pairs << start, end >>
ranges(c) == RangesFrom(c.items, c.head)

\* the two checks at the top of CachePool.write for a buffer of n bytes
WriteFits(c, n) ==
  /\ c.writeCursor # 0
  /\ c.items[c.writeCursor].empty
  /\ \/ Contains(c.items[c.writeCursor], c.writeOffset + n)
     \/ c.items[c.writeCursor].end = c.writeOffset + n

\* the two tests at the top of CachePool.splice, which throws when the new
\* chain does not start and end where the old one does (an Eof item may
\* replace an Eof item with another end)
SpliceOk(c, i, j, new) ==
  /\ c.items[i].start = new[1].start
  /\ \/ c.items[j].end = new[Len(new)].end
     \/ (c.items[j].eof /\ new[Len(new)].eof)

\* the pool when write reaches the splice that installs the buffer: the
\* range has been carved out of the hole under the write cursor
Carved(c, item) ==
  LET c1 == IF c.items[c.writeCursor].start < item.start
            THEN Split(c, c.writeCursor, item.start) ELSE c
      cur1 == c1.items[c1.writeCursor]
  IN  IF item.end < cur1.end \/ cur1.eof
      THEN Split(c1, c1.writeCursor, item.end) ELSE c1

\* write gets past its last splice (it always does for a buffer that is
\* not empty)
WriteInstalls(c, buf) ==
  LET item == BufferItem(c.writeOffset, buf, Now(c))
      c2 == Carved(c, item)
  IN  SpliceOk(c2, c2.writeCursor, c2.writeCursor, << item >>)

\* a write that installs the buffer and leaves the write head where it was
WriteKeepsOffset(c, buf) ==
  LET item == BufferItem(c.writeOffset, buf, Now(c))
      c1 == IF c.items[c.writeCursor].start < item.start
            THEN Split(c, c.writeCursor, item.start) ELSE c
      cur1 == c1.items[c1.writeCursor]
      c2 == IF item.end < cur1.end \/ cur1.eof
            THEN Split(c1, c1.writeCursor, item.end) ELSE c1
      at == c2.writeCursor
  IN  Ranked(Gc(Splice(c2, at, at, << item >>)))

\* CachePool.write once its checks have passed: carve the range out of the
\* hole under the write cursor, install the buffer, advance, collect; when
\* the last splice throws, the pool stays as the splits have left it
Write(c, buf) ==
  LET item == BufferItem(c.writeOffset, buf, Now(c))
      c2 == Carved(c, item)
      at == c2.writeCursor
      c3 == Splice(c2, at, at, << item >>)
      c4 == [c3 EXCEPT !.writeOffset = item.end,
                       !.writeCursor = IF at < Len(c3.items) THEN at + 1 ELSE 0]
  IN  IF SpliceOk(c2, at, at, << item >>) THEN Ranked(Gc(c4)) ELSE c2

\* the byte cached at offset o, 0 where the list has a hole (the bytes of
\* the file are all positive)
ByteAt(c, o) ==
  LET hit == {i \in 1..Len(c.items) :
                ~c.items[i].empty /\ c.items[i].start <= o /\ o < c.items[i].end}
  IN  IF hit = {} THEN 0
      ELSE LET i == CHOOSE i \in hit : TRUE
           IN  c.items[i].data[o - c.items[i].start + 1]

\* what a client of the pool has seen of its last operation: the operation,
\* its argument (an offset or a number of bytes), whether it returned (FALSE:
\* it threw), the bytes it copied out, the offsets written since the pool
\* was made, and how far the client is in the sequence writes, seekRead(0),
\* readBytes ("mixed" once it has left it)
NoCop ==
  [op |-> "none", arg |-> 0, ok |-> TRUE, out |-> << >>, written |-> {},
   order |-> "writes"]

\* ------------------------------------------------------------ TinyEvents
\* the number of handlers a client has, and the longest listener list
MaxHandlers == 2
MaxListeners == 3

\* the event names and the handlers (functions, told apart by a number)
\* that a client of the emitter uses
Names == {"buffer", "done"}
Handlers == 1..MaxHandlers

\* new TinyEvents(): _e is {}, and every method reads a name that has no
\* list as the empty list.  regs counts, per name and handler, the calls
\* of on() that no call of off() has taken back; name and log are the last
\* emit and the handlers it has called, in order.
NewEvents ==
  [e |-> [n \in Names |-> << >>],
   regs |-> [n \in Names |-> [h \in Handlers |-> 0]],
   name |-> "none", log |-> << >>]

\* TinyEvents.on: the handler is pushed to the list of the name
on(e, name, handler) == [e EXCEPT ![name] = Append(@, handler)]

\* Array.prototype.indexOf, counted from 0: -1 when x is not in the list
indexOf(l, x) ==
  IF \E i \in 1..Len(l) : l[i] = x
  THEN (CHOOSE i \in 1..Len(l) :
          l[i] = x /\ \A j \in 1..(i - 1) : l[j] # x) - 1
  ELSE -1

\* Array.prototype.splice(i, 1): an index below 0 counts from the end
spliceOne(l, i) ==
  LET at == IF i < 0 THEN (IF Len(l) + i < 0 THEN 0 ELSE Len(l) + i)
            ELSE (IF i > Len(l) THEN Len(l) ELSE i)
      n == IF at < Len(l) THEN Len(l) - 1 ELSE Len(l)
  IN  [k \in 1..n |-> IF k <= at THEN l[k] ELSE l[k + 1]]

\* numbers as the relational operators of JavaScript see them: a function
\* converts to NaN, and a comparison with NaN is false
Number(n) == [nan |-> FALSE, v |-> n]
FunctionToNumber(handler) == [nan |-> TRUE, v |-> 0]
GreaterOrEqual(x, y) == ~x.nan /\ ~y.nan /\ x.v >= y.v

\* TinyEvents.off: the index of the handler is looked up, and the handler
\* is spliced out if `handler >= 0`
off(e, name, handler) ==
  LET l == e[name]
      i == indexOf(l, handler)
  IN  IF GreaterOrEqual(FunctionToNumber(handler), Number(0))
      THEN [e EXCEPT ![name] = spliceOne(l, i)]
      ELSE e

\* TinyEvents.emit: the handlers called, in order, are a copy of the list
emit(e, name) == e[name]

\* the loop of CachePool.readBytes from list position i: the bytes copied
\* and the list with the timestamps of the items read set to now
RECURSIVE ReadLoop(_, _, _, _, _, _)
ReadLoop(items, i, readHead, end, now, out) ==
  IF i = 0 \/ i > Len(items) THEN [items |-> items, head |-> readHead, out |-> out]
  ELSE IF items[i].empty \/ items[i].start >= end
       THEN [items |-> items, head |-> readHead, out |-> out]
       ELSE LET it == items[i]
                readTail == Min(end, it.end)
                chunk == SubSeq(it.data, readHead - it.start + 1,
                                readTail - it.start)
            IN  ReadLoop([items EXCEPT ![i].ts = now], i + 1, readTail, end,
                         now, out \o chunk)

\* a readBytes that copies the bytes and leaves the read head where it was
readBytesStays(c, nbytes) ==
  LET len == bytesReadable(c, nbytes)
      r == ReadLoop(c.items, c.readCursor, c.readOffset,
                    c.readOffset + len, Now(c), << >>)
  IN  [pool |-> Ranked([c EXCEPT !.items = r.items]), out |-> r.out,
       len |-> len]

\* CachePool.readBytes into a destination of nbytes bytes: the new pool and
\* the bytes copied
readBytes(c, nbytes) ==
  LET len == bytesReadable(c, nbytes)
      r == ReadLoop(c.items, c.readCursor, c.readOffset,
                    c.readOffset + len, Now(c), << >>)
      c1 == [c EXCEPT !.items = r.items, !.readOffset = r.head,
                      !.readCursor = FirstContaining(r.items, c.readCursor,
                                                     r.head)]
  IN  [pool |-> Ranked(c1), out |-> r.out, len |-> len]

\* ------------------------------------------------------------- variables
VARIABLES
  cache,        \* StreamFile._cache, a pool record
  length,       \* StreamFile.length, -1 while unknown
  loaded,       \* StreamFile.loaded
  loading,      \* StreamFile.loading
  seekable,     \* StreamFile.seekable
  buffering,    \* StreamFile.buffering
  seeking,      \* StreamFile.seeking (tested by the calls, assigned by none)
  headers,      \* StreamFile.headers: "none" for {} or "origin"
  backend,      \* StreamFile._backend: a key of bk, 0 for null
  cachever,     \* StreamFile._cachever
  bk,           \* the Backend objects that are still referenced
  ops,          \* the promises returned by load / seek / buffer / read
  refused,      \* the call whose promise the state test has just rejected
  cop,          \* the last operation a client made on the pool directly
  bus           \* a TinyEvents object a client uses directly

vars == << cache, length, loaded, loading, seekable, buffering, seeking,
           headers, backend, cachever, bk, ops, refused, cop, bus >>

coord == << length, loaded, loading, seekable, buffering, seeking, headers,
            cachever >>

\* the public calls that start with a state test
Calls == {"load", "seek", "buffer", "read", "readSync"}

\* sizes passed to buffer / read / readSync
Sizes == {1, ChunkSize + 1, FileLen}

\* ---------------------------------------------------------------- Backend
\* xhr is the state of the request of a Backend: "sent", "open" (headers
\* received, body streaming), "done", "httperror", "neterror", "aborted";
\* "none" marks a key of bk that holds no object.  hooked: the buffer /
\* done handlers of the coordinator are subscribed.
NoBackend ==
  [offset |-> 0, length |-> 0, cachever |-> 0, seekable |-> FALSE,
   headers |-> "none", eof |-> FALSE, bytesRead |-> 0, xhr |-> "none",
   onAbort |-> FALSE, hooked |-> FALSE, served |-> 0]

\* new Backend({url, offset, length, cachever}) followed by load(): the
\* request is sent and _onAbort is armed
NewBackend(offset, len, cv) ==
  [NoBackend EXCEPT !.offset = offset, !.length = len, !.cachever = cv,
                    !.xhr = "sent", !.onAbort = TRUE]

\* Backend.abort: xhr.abort() ends a request in flight and fires neither
\* progress, load nor error; a pending _onAbort rejects the promise of
\* Backend.load, which _openBackend does not look at
BackendAbort(bks, b) ==
  [bks EXCEPT ![b].xhr = IF @ \in {"sent", "open"} THEN "aborted" ELSE @,
              ![b].onAbort = FALSE]

\* a request that can still deliver events
Live(r) == r.xhr \in {"sent", "open"}

\* the key a new Backend object gets: the first one that holds no object
FreshKey(bks) ==
  IF \E b \in 1..MaxBackends : bks[b].xhr = "none"
  THEN CHOOSE b \in 1..MaxBackends :
         /\ bks[b].xhr = "none"
         /\ \A a \in 1..MaxBackends : bks[a].xhr = "none" => b <= a
  ELSE MaxBackends + 1

\* ------------------------------------------------------------- StreamFile
\* StreamFile.eof
Eof(c, len) == len = c.readOffset

\* StreamFile._clampToLength
clampToLength(len, offset) == IF len < 0 THEN offset ELSE Min(len, offset)

\* StreamFile.bytesAvailable
bytesAvailable(c, max) == bytesReadable(c, max)

\* StreamFile._openBackend up to the point where its promise is settled or
\* left waiting for 'open': res is "backend" (resolved with the current
\* backend), "reject" (at end of file), "null" (resolved with null) or
\* "pending" (a new backend was created and loaded)
openBackend(c, cur, len, bks, cv) ==
  IF cur # 0
  THEN [res |-> "backend", b |-> cur, cache |-> c, bk |-> bks, backend |-> cur]
  ELSE IF Eof(c, len)
  THEN [res |-> "reject", b |-> 0, cache |-> c, bk |-> bks, backend |-> cur]
  ELSE LET readable == bytesReadable(c, ChunkSize)
           readTail == c.readOffset + readable
           c1 == seekWrite(c, readTail)
           writable == bytesWritable(c1, ChunkSize)
           key == FreshKey(bks)
       IN  IF (len >= 0 /\ readTail >= len) \/ writable = 0
           THEN [res |-> "null", b |-> 0, cache |-> c1, bk |-> bks,
                 backend |-> cur]
           ELSE [res |-> "pending", b |-> key, cache |-> c1,
                 bk |-> IF key <= MaxBackends
                        THEN [bks EXCEPT ![key] =
                                NewBackend(c1.writeOffset, writable, cv)]
                        ELSE bks,
                 backend |-> key]

\* StreamFile._readAhead: nothing to do with a backend in place or at eof
readAhead(c, cur, len, bks, cv) ==
  IF cur # 0 \/ Eof(c, len)
  THEN [res |-> "idle", b |-> 0, cache |-> c, bk |-> bks, backend |-> cur]
  ELSE openBackend(c, cur, len, bks, cv)

\* an abort that forgets the backend and leaves its request running
abortKeepsRequest(cur, bks) == [backend |-> 0, bk |-> bks]

\* StreamFile.abort
abort(cur, bks) ==
  IF cur # 0 THEN [backend |-> 0, bk |-> BackendAbort(bks, cur)]
  ELSE [backend |-> cur, bk |-> bks]

\* --------------------------------------------------------------- promises
\* One record per promise returned to the client.  pc is the point the
\* operation has reached:
\*   "open"     waiting for 'open' of backend b (promise of _openBackend)
\*   "opened"   _openBackend resolved with b (0 for null), then() pending
\*   "wait"     waiting in bufferToOffset on backend b
\*   "waited"   bufferToOffset resolved, then() pending
\*   "final"    the last then() of buffer pending
\*   "catch"    a rejection on its way to the catch() of this level
\*   "readsync" buffer resolved, the readSync of read() pending
\*   "resolved" / "rejected"  settled;  "free"  unused
\*   "never"    waiting on a backend that emits no more events: nothing
\*              will settle the promise
\* depth counts the buffer() calls this one is nested in; ab: abort() was
\* called while the promise was pending.  A promise that is settled, or
\* never will be, is shown for one step, then its slot is free.
FreeOp == [kind |-> "none", pc |-> "free", n |-> 0, end |-> 0, b |-> 0,
           depth |-> 0, err |-> "none", out |-> << >>, ab |-> FALSE]

Settled(o) == o.pc \in {"resolved", "rejected"}
Pending(o) == o.pc \notin {"free", "resolved", "rejected", "never"}

\* the slots with the promises that have nothing more to do forgotten
Sweep(os) == [s \in 1..MaxOps |-> IF Pending(os[s]) THEN os[s] ELSE FreeOp]

\* the slot a new promise goes to: the first one not pending
FreeSlots == {s \in 1..MaxOps : ~Pending(ops[s])}
NextSlot == CHOOSE s \in FreeSlots : \A t \in FreeSlots : s <= t

\* no promise is pending
Idle == \A s \in 1..MaxOps : ~Pending(ops[s])

\* Backend objects nothing refers to any more are forgotten: a request that
\* has ended, is not the current backend and has no promise waiting on it
Collect(bks, cur, os) ==
  [b \in 1..MaxBackends |->
     IF /\ ~Live(bks[b])
        /\ b # cur
        /\ \A s \in 1..MaxOps : ~(Pending(os[s]) /\ os[s].b = b)
     THEN NoBackend ELSE bks[b]]

\* pc after a call of _openBackend
PcAfterOpen(r) ==
  CASE r.res = "pending" -> "open"
    [] r.res = "reject"  -> "catch"
    [] OTHER             -> "opened"

ErrAfterOpen(r) == IF r.res = "reject" THEN "eof" ELSE "none"

\* a promise record once settled; b stays for a rejection that came from
\* backend b
Settle(o, pc, err, out) ==
  [FreeOp EXCEPT !.kind = o.kind, !.n = o.n, !.ab = o.ab, !.pc = pc,
                 !.err = err, !.out = out,
                 !.b = IF pc = "rejected" THEN o.b ELSE 0]

\* the promises left waiting for 'open', 'done' or 'error' of a backend
\* whose request has ended without them; err tells how it ended
Park(os, bks) ==
  [s \in 1..MaxOps |->
     IF os[s].pc \in {"open", "wait"} /\ ~Live(bks[os[s].b])
     THEN Settle(os[s], "never", bks[os[s].b].xhr, << >>)
     ELSE os[s]]

TypeOK ==
  /\ length \in -1..FileLen
  /\ loaded \in BOOLEAN /\ loading \in BOOLEAN /\ seekable \in BOOLEAN
  /\ buffering \in BOOLEAN /\ seeking \in BOOLEAN
  /\ headers \in {"none", "origin"}
  /\ backend \in 0..MaxBackends
  /\ cachever \in Nat
  /\ \A s \in 1..MaxOps : ops[s].depth \in 0..MaxDepth
  /\ refused \in {"none"} \cup Calls
  /\ cop.op \in {"none", "seekRead", "seekWrite", "write", "readBytes",
                "bytesReadable", "bytesWritable", "ranges"}

Init ==
  /\ \E cs \in CacheSizes : cache = NewPool(cs)
  /\ length = -1
  /\ loaded = FALSE /\ loading = FALSE /\ seekable = FALSE
  /\ buffering = FALSE /\ seeking = FALSE
  /\ headers = "none"
  /\ backend = 0
  /\ cachever = 0
  /\ bk = [b \in 1..MaxBackends |-> NoBackend]
  /\ ops = [s \in 1..MaxOps |-> FreeOp]
  /\ refused = "none"
  /\ cop = NoCop
  /\ bus = NewEvents

\* --------------------------------------------------------- public calls
\* StreamFile.load: accepted when neither loading nor loaded
LoadCall ==
  /\ refused' = "none" /\ UNCHANGED << cop, bus >>
  /\ FreeSlots # {}
  /\ ~loading /\ ~loaded
  /\ LET r == openBackend(cache, backend, length, bk, cachever)
     IN  /\ r.b <= MaxBackends
         /\ loading' = TRUE
         /\ cache' = r.cache /\ backend' = r.backend
         /\ ops' = [Sweep(ops) EXCEPT ![NextSlot] =
                      [FreeOp EXCEPT !.kind = "load", !.pc = PcAfterOpen(r),
                                     !.err = ErrAfterOpen(r), !.b = r.b]]
         /\ bk' = Collect(r.bk, backend', ops')
  /\ UNCHANGED << length, loaded, seekable, buffering, seeking, headers,
                  cachever >>

\* a state test that lets a call through while the stream is buffering
StateOkIgnoresBuffering == loaded /\ ~seeking

\* the state test shared by seek, readSync and buffer
StateOk == loaded /\ ~buffering /\ ~seeking

\* tests of seek that let a seek through on a stream that is not seekable
SeekOkNotSeekable(offset) ==
  StateOk /\ offset >= 0 /\ ~(length >= 0 /\ offset > length)

\* the tests StreamFile.seek(offset) makes before it acts: the state, the
\* input (a negative offset stands for every offset the input test
\* refuses), the end of the file, seekable
SeekOk(offset) ==
  StateOk /\ offset >= 0 /\ ~(length >= 0 /\ offset > length) /\ seekable

\* the body of StreamFile.seek(offset): abort the backend in place, move
\* both cursors, start readahead; a.bk is the backends after the abort
seekBody(c, cur, len, bks, cv, offset) ==
  LET a == abort(cur, bks)
      c1 == seekWrite(seekRead(c, offset), offset)
  IN  [a |-> a, r |-> readAhead(c1, a.backend, len, a.bk, cv)]

\* StreamFile.seek(offset); the promise follows the one of _readAhead
SeekCall(offset) ==
  /\ refused' = "none" /\ UNCHANGED << cop, bus >>
  /\ FreeSlots # {}
  /\ SeekOk(offset)
  /\ LET sb == seekBody(cache, backend, length, bk, cachever, offset)
         r == sb.r
         op == [FreeOp EXCEPT !.kind = "seek", !.n = offset]
     IN  /\ r.b <= MaxBackends
         /\ cache' = r.cache /\ backend' = r.backend
         /\ ops' = [Park(Sweep(ops), sb.a.bk) EXCEPT ![NextSlot] =
                      IF r.res = "pending"
                      THEN [op EXCEPT !.pc = "open", !.b = r.b]
                      ELSE IF r.res = "reject"
                      THEN Settle(op, "rejected", "eof", << >>)
                      ELSE Settle(op, "resolved", "none", << >>)]
         /\ bk' = Collect(r.bk, backend', ops')
  /\ UNCHANGED coord

\* StreamFile.readSync(nbytes): read what is there, then start readahead
\* and drop its promise.  The read of the pool fills a destination of
\* nbytes bytes (CachePool.readBytes) and the bytes copied are returned.
readSync(c, cur, len, bks, cv, nbytes) ==
  LET rd == readBytes(c, nbytes)
      r == readAhead(rd.pool, cur, len, bks, cv)
  IN  [out |-> rd.out, cache |-> r.cache, bk |-> r.bk, backend |-> r.backend,
       b |-> r.b]

ReadSyncCall(nbytes) ==
  /\ refused' = "none" /\ UNCHANGED << cop, bus >>
  /\ StateOk
  /\ LET r == readSync(cache, backend, length, bk, cachever, nbytes)
     IN  /\ r.b <= MaxBackends
         /\ cache' = r.cache /\ backend' = r.backend
         /\ ops' = Sweep(ops)
         /\ bk' = Collect(r.bk, backend', ops')
  /\ UNCHANGED coord

\* the body of StreamFile.buffer(nbytes) once the state test has passed:
\* now is TRUE when the bytes are there already, else r is the outcome of
\* _openBackend
bufferBody(c, cur, len, bks, cv, nbytes) ==
  LET end == clampToLength(len, c.readOffset + nbytes)
      readable == end - c.readOffset
  IN  [now |-> bytesAvailable(c, readable) >= readable, end |-> end,
       r |-> openBackend(c, cur, len, bks, cv)]

\* StreamFile.buffer(nbytes) and StreamFile.read(nbytes), which starts with
\* the same call
BufferCall(kind, nbytes) ==
  /\ refused' = "none" /\ UNCHANGED << cop, bus >>
  /\ FreeSlots # {}
  /\ StateOk
  /\ LET bb == bufferBody(cache, backend, length, bk, cachever, nbytes)
         op == [FreeOp EXCEPT !.kind = kind, !.n = nbytes, !.end = bb.end]
     IN  IF bb.now
         THEN /\ ops' = [Sweep(ops) EXCEPT ![NextSlot] =
                           IF kind = "read" THEN [op EXCEPT !.pc = "readsync"]
                           ELSE Settle(op, "resolved", "none", << >>)]
              /\ bk' = Collect(bk, backend, ops')
              /\ UNCHANGED << buffering, cache, backend >>
         ELSE /\ bb.r.b <= MaxBackends
              /\ buffering' = TRUE
              /\ cache' = bb.r.cache
              /\ backend' = bb.r.backend
              /\ ops' = [Sweep(ops) EXCEPT ![NextSlot] =
                           [op EXCEPT !.pc = PcAfterOpen(bb.r),
                                      !.err = ErrAfterOpen(bb.r),
                                      !.b = bb.r.b]]
              /\ bk' = Collect(bb.r.bk, backend', ops')
  /\ UNCHANGED << length, loaded, loading, seekable, seeking, headers,
                  cachever >>

\* load, seek, buffer, read or readSync called in a state its first test
\* refuses: the executor throws, the promise returned is rejected (readSync
\* itself throws) and nothing else changes.  The refusal is shown for one
\* step, like a settled promise.
RefusedCall(kind) ==
  /\ CASE kind = "load" -> loading \/ loaded
       [] kind = "seek" -> \E offset \in 0..FileLen : ~SeekOk(offset)
       [] OTHER         -> ~StateOk
  /\ refused' = kind /\ UNCHANGED << cop, bus >>
  /\ ops' = Sweep(ops)
  /\ bk' = Collect(bk, backend, ops')
  /\ UNCHANGED << cache, coord, backend >>

\* seek(offset) refused by one of its tests
RefusedSeek(offset) ==
  /\ ~SeekOk(offset)
  /\ refused' = "seek" /\ UNCHANGED << cop, bus >>
  /\ ops' = Sweep(ops)
  /\ bk' = Collect(bk, backend, ops')
  /\ UNCHANGED << cache, coord, backend >>

\* StreamFile.abort(), called by the client
Abort ==
  /\ refused' = "none" /\ UNCHANGED << cop, bus >>
  /\ LET a == abort(backend, bk)
     IN  /\ backend' = a.backend
         /\ ops' = Park([s \in 1..MaxOps |->
                           IF Pending(ops[s]) THEN [ops[s] EXCEPT !.ab = TRUE]
                           ELSE FreeOp], a.bk)
         /\ bk' = Collect(a.bk, backend', ops')
  /\ UNCHANGED << cache, coord >>

\* StreamFile.abort() over a backend whose abort() does not stop what the
\* request has under way: the coordinator drops the backend, and the
\* handlers it has subscribed still get the events that follow
LateAbort ==
  /\ refused' = "none" /\ UNCHANGED << cop, bus >>
  /\ backend # 0 /\ bk[backend].xhr = "open"
  /\ backend' = 0
  /\ ops' = [s \in 1..MaxOps |->
               IF Pending(ops[s]) THEN [ops[s] EXCEPT !.ab = TRUE]
               ELSE FreeOp]
  /\ bk' = Collect([bk EXCEPT ![backend].onAbort = FALSE], backend', ops')
  /\ UNCHANGED << cache, coord >>

\* --------------------------------------------------------- continuations
\* a then() of load that leaves loading set
loadThenKeepsLoading(bks, b, cur) ==
  [seekable |-> bks[b].seekable, headers |-> bks[b].headers,
   length |-> bks[b].length, loaded |-> TRUE, loading |-> TRUE]

\* a then() of load that reads the metadata from this._backend
loadThenFromCurrent(bks, b, cur) ==
  LET r == IF cur # 0 THEN bks[cur] ELSE NoBackend
  IN  [seekable |-> r.seekable, headers |-> r.headers, length |-> r.length,
       loaded |-> TRUE, loading |-> FALSE]

\* load: what the then() after _openBackend assigns.  The metadata is read
\* from the backend b the promise was resolved with, which need no longer
\* be the current one cur
loadThen(bks, b, cur) ==
  [seekable |-> bks[b].seekable, headers |-> bks[b].headers,
   length |-> bks[b].length, loaded |-> TRUE, loading |-> FALSE]

\* load: the then() after _openBackend; the catch() takes a rejection of
\* _openBackend, or the TypeError the then() throws on a null backend
LoadSettle(s) ==
  /\ refused' = "none" /\ UNCHANGED << cop, bus >>
  /\ ops[s].kind = "load" /\ ops[s].pc \in {"opened", "catch"}
  /\ IF ops[s].pc = "opened" /\ ops[s].b # 0
     THEN /\ LET t == loadThen(bk, ops[s].b, backend)
             IN  /\ seekable' = t.seekable
                 /\ headers' = t.headers
                 /\ length' = t.length
                 /\ loaded' = t.loaded
                 /\ loading' = t.loading
          /\ ops' = [Sweep(ops) EXCEPT ![s] =
                       Settle(ops[s], "resolved", "none", << >>)]
     ELSE /\ loading' = FALSE
          /\ ops' = [Sweep(ops) EXCEPT ![s] =
                       Settle(ops[s], "rejected",
                              IF ops[s].pc = "opened" THEN "type"
                              ELSE ops[s].err, << >>)]
          /\ UNCHANGED << seekable, headers, length, loaded >>
  /\ bk' = Collect(bk, backend, ops')
  /\ UNCHANGED << cache, buffering, seeking, backend, cachever >>

\* DownloadBackend.bufferToOffset(end): settled at once when the backend is
\* at eof or starts at or after end, else left waiting for done / error
bufferToOffset(r, end) ==
  IF r.eof \/ r.offset >= end THEN "waited" ELSE "wait"

\* buffer: the then() after _openBackend
BufferOpened(s) ==
  /\ refused' = "none" /\ UNCHANGED << cop, bus >>
  /\ ops[s].kind \in {"buffer", "read"} /\ ops[s].pc = "opened"
  /\ ops' = Park([Sweep(ops) EXCEPT ![s] =
                    IF ops[s].b = 0 THEN [@ EXCEPT !.pc = "final"]
                    ELSE IF bufferToOffset(bk[ops[s].b], ops[s].end) = "wait"
                    THEN [@ EXCEPT !.pc = "wait"]
                    ELSE [@ EXCEPT !.pc = "waited", !.b = 0]], bk)
  /\ bk' = Collect(bk, backend, ops')
  /\ UNCHANGED << cache, coord, backend >>

\* buffer: the then() after bufferToOffset clears buffering and calls
\* buffer(nbytes) again
BufferWaited(s) ==
  /\ refused' = "none" /\ UNCHANGED << cop, bus >>
  /\ ops[s].kind \in {"buffer", "read"} /\ ops[s].pc = "waited"
  /\ ops[s].depth < MaxDepth
  /\ IF ~(loaded /\ ~seeking)
     THEN /\ buffering' = FALSE
          /\ ops' = [Sweep(ops) EXCEPT ![s].pc = "catch", ![s].err = "state"]
          /\ bk' = Collect(bk, backend, ops')
          /\ UNCHANGED << cache, backend >>
     ELSE LET bb == bufferBody(cache, backend, length, bk, cachever, ops[s].n)
          IN  IF bb.now
              THEN /\ buffering' = FALSE
                   /\ ops' = [Sweep(ops) EXCEPT ![s].pc = "final"]
                   /\ bk' = Collect(bk, backend, ops')
                   /\ UNCHANGED << cache, backend >>
              ELSE /\ bb.r.b <= MaxBackends
                   /\ buffering' = TRUE
                   /\ cache' = bb.r.cache
                   /\ backend' = bb.r.backend
                   /\ ops' = [Sweep(ops) EXCEPT ![s].pc = PcAfterOpen(bb.r),
                                                ![s].err = ErrAfterOpen(bb.r),
                                                ![s].b = bb.r.b,
                                                ![s].end = bb.end,
                                                ![s].depth = @ + 1]
                   /\ bk' = Collect(bb.r.bk, backend', ops')
  /\ UNCHANGED << length, loaded, loading, seekable, seeking, headers,
                  cachever >>

\* where a settled level of buffer hands over: to the level around it, or
\* to the promise the client holds
LevelSettled(o, pcOuter, top) ==
  IF o.depth > 0 THEN [o EXCEPT !.depth = @ - 1, !.pc = pcOuter] ELSE top

\* buffer: the last then() clears buffering and resolves
BufferFinal(s) ==
  /\ refused' = "none" /\ UNCHANGED << cop, bus >>
  /\ ops[s].kind \in {"buffer", "read"} /\ ops[s].pc = "final"
  /\ buffering' = FALSE
  /\ ops' = [Sweep(ops) EXCEPT ![s] =
               LevelSettled(@, "final",
                            IF @.kind = "read" THEN [@ EXCEPT !.pc = "readsync"]
                            ELSE Settle(@, "resolved", "none", << >>))]
  /\ bk' = Collect(bk, backend, ops')
  /\ UNCHANGED << cache, length, loaded, loading, seekable, seeking, headers,
                  backend, cachever >>

\* buffer: the catch() clears buffering and rejects
BufferCatch(s) ==
  /\ refused' = "none" /\ UNCHANGED << cop, bus >>
  /\ ops[s].kind \in {"buffer", "read"} /\ ops[s].pc = "catch"
  /\ buffering' = FALSE
  /\ ops' = [Sweep(ops) EXCEPT ![s] =
               LevelSettled(@, "catch", Settle(@, "rejected", @.err, << >>))]
  /\ bk' = Collect(bk, backend, ops')
  /\ UNCHANGED << cache, length, loaded, loading, seekable, seeking, headers,
                  backend, cachever >>

\* read: the then() after buffer calls readSync, which throws in a wrong
\* state
ReadThen(s) ==
  /\ refused' = "none" /\ UNCHANGED << cop, bus >>
  /\ ops[s].kind = "read" /\ ops[s].pc = "readsync"
  /\ IF StateOk
     THEN LET r == readSync(cache, backend, length, bk, cachever, ops[s].n)
          IN  /\ r.b <= MaxBackends
              /\ cache' = r.cache /\ backend' = r.backend
              /\ ops' = [Sweep(ops) EXCEPT ![s] =
                           Settle(ops[s], "resolved", "none", r.out)]
              /\ bk' = Collect(r.bk, backend', ops')
     ELSE /\ ops' = [Sweep(ops) EXCEPT ![s] =
                       Settle(ops[s], "rejected", "state", << >>)]
          /\ bk' = Collect(bk, backend, ops')
          /\ UNCHANGED << cache, backend >>
  /\ UNCHANGED coord

\* --------------------------------------------------------- backend events
\* the promises waiting at pc on backend b move on to pc2 (a seek promise,
\* whose continuations run no code, settles at once)
Wake(os, b, pc, pc2, seekPc, err) ==
  [s \in 1..MaxOps |->
     IF os[s].pc = pc /\ os[s].b = b
     THEN IF os[s].kind = "seek" THEN Settle(os[s], seekPc, err, << >>)
          ELSE [os[s] EXCEPT !.pc = pc2, !.err = err,
                             !.b = IF pc2 = "waited" THEN 0 ELSE b]
     ELSE os[s]]

\* the Backend r once checkOpen has read the headers of a response with the
\* given status (in [200, 300)) and total length (-1 when the headers do not
\* tell): seekable on 206 only.  served is the number of bytes the body will
\* carry: the range asked for on 206, the file from its start on 200.
Opened(r, status, total) ==
  [r EXCEPT !.xhr = "open", !.seekable = (status = 206), !.length = total,
            !.headers = "origin", !.onAbort = FALSE,
            !.served = IF status = 206 THEN Min(r.length, FileLen - r.offset)
                       ELSE FileLen]

\* Backend.load checkOpen at readyState 2 with status 206 and the requested
\* range: the metadata is taken from the headers, onXHRStart emits 'open',
\* checkBackendOpen disarms _onAbort and the checkOpen of _openBackend hooks
\* the buffer / done handlers and resolves, or rejects when the backend is
\* no longer the current one
BackendOpen(b) ==
  /\ refused' = "none" /\ UNCHANGED << cop, bus >>
  /\ bk[b].xhr = "sent"
  /\ bk[b].offset < FileLen
  /\ ops' = IF b = backend
            THEN Wake(Sweep(ops), b, "open", "opened", "resolved", "none")
            ELSE Wake(Sweep(ops), b, "open", "catch", "rejected", "state")
  /\ bk' = Collect([bk EXCEPT ![b] = [Opened(@, 206, FileLen) EXCEPT
                                         !.hooked = (b = backend)]],
                   backend, ops')
  /\ UNCHANGED << cache, coord, backend >>

\* the cache-buster is raised at most this often
MaxCachever == 2

\* XHRBackend.abort: xhr.abort() ends the request and fires neither progress,
\* load nor error; the call of Backend.prototype.call that follows names a
\* method no class defines, so a TypeError leaves abort() with _onAbort
\* still armed
XHRBackendAbort(r) ==
  [r EXCEPT !.xhr = IF @ \in {"sent", "open"} THEN "aborted" ELSE @]

\* XHRBackend.load checkOpen at readyState 2 with status 206 and a range
\* that starts elsewhere than asked: cachever is raised, 'cachever' is
\* emitted (the handler of _openBackend raises the counter of the
\* coordinator), abort() is called; the TypeError it throws leaves the
\* listener before oncomplete() and the second load(), so no request
\* follows and the promises waiting for 'open' stay as they are
BackendWrongRange(b) ==
  /\ refused' = "none" /\ UNCHANGED << cop, bus >>
  /\ bk[b].xhr = "sent"
  /\ bk[b].offset # 0 \/ bk[b].length # 0
  /\ cachever < MaxCachever
  /\ cachever' = cachever + 1
  /\ LET bks == [bk EXCEPT ![b] = XHRBackendAbort([@ EXCEPT !.cachever = @ + 1])]
     IN  /\ ops' = Park(Sweep(ops), bks)
         /\ bk' = Collect(bks, backend, ops')
  /\ UNCHANGED << cache, loaded, loading, seekable, buffering, seeking,
                  headers, length, backend >>

\* Backend.load checkOpen with a status outside [200, 300): the promise of
\* Backend.load is rejected and no event is emitted
BackendHttpError(b) ==
  /\ refused' = "none" /\ UNCHANGED << cop, bus >>
  /\ bk[b].xhr = "sent"
  /\ ops' = Park(Sweep(ops), [bk EXCEPT ![b].xhr = "httperror"])
  /\ bk' = Collect([bk EXCEPT ![b].xhr = "httperror", ![b].onAbort = FALSE],
                   backend, ops')
  /\ UNCHANGED << cache, coord, backend >>

\* Backend.load checkError, the xhr 'error' listener before the headers:
\* the promise of Backend.load is rejected and no event is emitted
BackendNetError(b) ==
  /\ refused' = "none" /\ UNCHANGED << cop, bus >>
  /\ bk[b].xhr = "sent"
  /\ ops' = Park(Sweep(ops), [bk EXCEPT ![b].xhr = "neterror"])
  /\ bk' = Collect([bk EXCEPT ![b].xhr = "neterror", ![b].onAbort = FALSE],
                   backend, ops')
  /\ UNCHANGED << cache, coord, backend >>

\* a 'buffer' handler that writes whatever backend the event comes from
onBufferAnyBackend(c, cur, b, buf) ==
  IF WriteFits(c, Len(buf)) THEN Write(c, buf) ELSE c

\* the 'buffer' handler that the checkOpen of _openBackend subscribes: the
\* buffer is written to the cache if the backend of the event is the
\* current one (a write that throws at its first two tests leaves the cache
\* as it was)
onBuffer(c, cur, b, buf) ==
  IF b = cur /\ WriteFits(c, Len(buf)) THEN Write(c, buf) ELSE c

\* onXHRProgress: k more bytes of the body arrive and are emitted as a
\* 'buffer' event, which runs the handler of the coordinator if it has
\* been subscribed
BackendProgress(b, k) ==
  /\ refused' = "none" /\ UNCHANGED << cop, bus >>
  /\ bk[b].xhr = "open"
  /\ k \in 1..(bk[b].served - bk[b].bytesRead)
  /\ LET at == bk[b].offset + bk[b].bytesRead
     IN  cache' = IF bk[b].hooked
                  THEN onBuffer(cache, backend, b, FileBytes(at, at + k))
                  ELSE cache
  /\ ops' = Sweep(ops)
  /\ bk' = Collect([bk EXCEPT ![b].bytesRead = @ + k], backend, ops')
  /\ UNCHANGED << coord, backend >>

\* empty chunks are delivered as long as the list has fewer items of length
\* zero than this, the Eof item not counted
MaxZeroItems == 1

\* the number of items of length zero in the list, the Eof item not counted
ZeroItems(c) ==
  Cardinality({i \in 1..Len(c.items) :
                 ~c.items[i].eof /\ c.items[i].start = c.items[i].end})

\* MozChunkedBackend.onXHRProgress with a response chunk of no bytes: the
\* length is not looked at, bytesRead stays and 'buffer' is emitted with the
\* empty ArrayBuffer, which the handler of the coordinator writes to the
\* cache if the backend is the current one
BackendEmptyProgress(b) ==
  /\ refused' = "none" /\ UNCHANGED << cop, bus >>
  /\ bk[b].xhr = "open"
  /\ ZeroItems(cache) < MaxZeroItems
  /\ cache' = IF bk[b].hooked THEN onBuffer(cache, backend, b, << >>)
              ELSE cache
  /\ ops' = Sweep(ops)
  /\ bk' = Collect(bk, backend, ops')
  /\ UNCHANGED << coord, backend >>

\* a 'done' handler that takes the length from every backend that ends
onDoneAlways(len, r) == r.offset + r.bytesRead

\* the length after the 'done' handler of _openBackend has run for the
\* current backend r: an unknown length becomes the end of what r has read
onDone(len, r) == IF len = -1 THEN r.offset + r.bytesRead ELSE len

\* onXHRLoad: eof is set and 'done' is emitted; the handler of the
\* coordinator fixes an unknown length and drops the backend, and the
\* checkDone of every bufferToOffset resolves
BackendDone(b) ==
  /\ refused' = "none" /\ UNCHANGED << cop, bus >>
  /\ bk[b].xhr = "open"
  /\ bk[b].bytesRead = bk[b].served
  /\ IF bk[b].hooked /\ b = backend
     THEN /\ length' = onDone(length, bk[b])
          /\ backend' = 0
     ELSE UNCHANGED << length, backend >>
  /\ ops' = Wake(Sweep(ops), b, "wait", "waited", "resolved", "none")
  /\ bk' = Collect([bk EXCEPT ![b].xhr = "done", ![b].eof = TRUE],
                   backend', ops')
  /\ UNCHANGED << cache, loaded, loading, seekable, buffering, seeking,
                  headers, cachever >>

\* a checkError that keeps the backend that failed
checkErrorKeeps(cur, b) == cur

\* the checkError of _openBackend: the backend that failed is dropped if
\* it is the current one
checkError(cur, b) == IF b = cur THEN 0 ELSE cur

\* onXHRError while the body streams: 'error' is emitted; the checkError of
\* _openBackend (still subscribed) runs and the checkError of every
\* bufferToOffset rejects
BackendError(b) ==
  /\ refused' = "none" /\ UNCHANGED << cop, bus >>
  /\ bk[b].xhr = "open"
  /\ backend' = checkError(backend, b)
  /\ ops' = Wake(Sweep(ops), b, "wait", "catch", "rejected", "stream")
  /\ bk' = Collect([bk EXCEPT ![b].xhr = "neterror"], backend', ops')
  /\ UNCHANGED << cache, coord >>

\* ------------------------------------------------------------------ Spec
Next ==
  \/ LoadCall
  \/ \E offset \in 0..FileLen : SeekCall(offset)
  \/ \E nbytes \in Sizes : ReadSyncCall(nbytes)
  \/ \E nbytes \in Sizes : BufferCall("buffer", nbytes)
  \/ \E nbytes \in Sizes : BufferCall("read", nbytes)
  \/ \E kind \in Calls : RefusedCall(kind)
  \/ Abort
  \/ \E s \in 1..MaxOps : LoadSettle(s)
  \/ \E s \in 1..MaxOps : BufferOpened(s)
  \/ \E s \in 1..MaxOps : BufferWaited(s)
  \/ \E s \in 1..MaxOps : BufferFinal(s)
  \/ \E s \in 1..MaxOps : BufferCatch(s)
  \/ \E s \in 1..MaxOps : ReadThen(s)
  \/ \E b \in 1..MaxBackends : BackendOpen(b)
  \/ \E b \in 1..MaxBackends : BackendHttpError(b)
  \/ \E b \in 1..MaxBackends : BackendNetError(b)
  \/ \E b \in 1..MaxBackends : \E k \in 1..ChunkSize : BackendProgress(b, k)
  \/ \E b \in 1..MaxBackends : BackendDone(b)
  \/ \E b \in 1..MaxBackends : BackendError(b)

Spec == Init /\ [][Next]_vars

\* A client that waits for each promise before its next call and never
\* calls abort(), over a network without failures.  The catch() of load
\* and of buffer have nothing to take there.
NextSeq ==
  \/ Idle /\ LoadCall
  \/ Idle /\ \E offset \in 0..FileLen : SeekCall(offset)
  \/ Idle /\ \E nbytes \in Sizes : ReadSyncCall(nbytes)
  \/ Idle /\ \E nbytes \in Sizes : BufferCall("buffer", nbytes)
  \/ Idle /\ \E nbytes \in Sizes : BufferCall("read", nbytes)
  \/ \E s \in 1..MaxOps : LoadSettle(s)
  \/ \E s \in 1..MaxOps : BufferOpened(s)
  \/ \E s \in 1..MaxOps : BufferWaited(s)
  \/ \E s \in 1..MaxOps : BufferFinal(s)
  \/ \E s \in 1..MaxOps : ReadThen(s)
  \/ \E b \in 1..MaxBackends : BackendOpen(b)
  \/ \E b \in 1..MaxBackends : \E k \in 1..ChunkSize : BackendProgress(b, k)
  \/ \E b \in 1..MaxBackends : BackendDone(b)

SpecSeq == Init /\ [][NextSeq]_vars

\* The sequential client over an origin that may answer a range request
\* with another range than the one asked for.
NextAnomaly ==
  \/ NextSeq
  \/ \E b \in 1..MaxBackends : BackendWrongRange(b)

SpecAnomaly == Init /\ [][NextAnomaly]_vars

\* A client that loads, seeks and reads what is cached, waits for each
\* promise and may call abort() between two calls, over backends that may
\* go on emitting after the coordinator has dropped them.
NextLate ==
  \/ Idle /\ LoadCall
  \/ Idle /\ \E offset \in 0..FileLen : SeekCall(offset)
  \/ Idle /\ \E nbytes \in Sizes : ReadSyncCall(nbytes)
  \/ Idle /\ LateAbort
  \/ \E s \in 1..MaxOps : LoadSettle(s)
  \/ \E b \in 1..MaxBackends : BackendOpen(b)
  \/ \E b \in 1..MaxBackends : \E k \in 1..ChunkSize : BackendProgress(b, k)
  \/ \E b \in 1..MaxBackends : BackendDone(b)

SpecLate == Init /\ [][NextLate]_vars

\* both cursors of the pool are on an item; once one of them is null every
\* call into the pool that reads it ends in a TypeError
CursorsSet == cache.readCursor # 0 /\ cache.writeCursor # 0

\* The sequential client over a backend that may emit 'buffer' with an
\* empty chunk.  Runs are followed as long as the cursors of the pool are
\* set.
NextEmptyChunk ==
  \/ CursorsSet /\ NextSeq
  \/ \E b \in 1..MaxBackends : BackendEmptyProgress(b)

SpecEmptyChunk == Init /\ [][NextEmptyChunk]_vars

\* offsets passed to seek: one the input test refuses, the offsets of the
\* file, one past its end
SeekOffsets == -1..(FileLen + 1)

\* The stream as load() leaves it when it has resolved, for each kind of
\* answer of the origin to the first request: 206 or 200, with or without
\* the total length in the headers.
InitSeek ==
  /\ \E status \in {200, 206} : \E total \in {-1, FileLen} :
       LET first == Opened(NewBackend(0, ChunkSize, 0), status, total)
       IN  /\ bk = [b \in 1..MaxBackends |->
                     IF b = 1 THEN [first EXCEPT !.hooked = TRUE]
                     ELSE NoBackend]
           /\ seekable = first.seekable
           /\ length = first.length
           /\ headers = first.headers
  /\ cache = seekWrite(NewPool(0), 0)
  /\ loaded = TRUE /\ loading = FALSE
  /\ buffering = FALSE /\ seeking = FALSE
  /\ backend = 1
  /\ cachever = 0
  /\ ops = [s \in 1..MaxOps |-> FreeOp]
  /\ refused = "none"
  /\ cop = NoCop
  /\ bus = NewEvents

\* a client that seeks and reads on the loaded stream
NextSeek ==
  \/ \E offset \in SeekOffsets : SeekCall(offset)
  \/ \E offset \in SeekOffsets : RefusedSeek(offset)
  \/ \E nbytes \in Sizes : ReadSyncCall(nbytes)
  \/ \E b \in 1..MaxBackends : BackendOpen(b)
  \/ \E b \in 1..MaxBackends : \E k \in 1..ChunkSize : BackendProgress(b, k)
  \/ \E b \in 1..MaxBackends : BackendDone(b)

SpecSeek == InitSeek /\ [][NextSeek]_vars

\* ---------------------------------------------- a client of the pool alone
\* A CachePool used directly, as the tests of the pool do: seekRead,
\* seekWrite, write and readBytes in any order on a pool that starts fresh.
\* The coordinator takes no step; its variables stay as constructed.

\* cacheSize options the pool is constructed with (0 is the default)
PoolSizes == {0, 2}

\* lengths of the buffers written (write takes a non-empty buffer)
WriteSizes == 1..(ChunkSize + 1)

InitCache ==
  /\ \E cs \in PoolSizes : cache = NewPool(cs)
  /\ length = -1
  /\ loaded = FALSE /\ loading = FALSE /\ seekable = FALSE
  /\ buffering = FALSE /\ seeking = FALSE
  /\ headers = "none"
  /\ backend = 0
  /\ cachever = 0
  /\ bk = [b \in 1..MaxBackends |-> NoBackend]
  /\ ops = [s \in 1..MaxOps |-> FreeOp]
  /\ refused = "none"
  /\ cop = NoCop
  /\ bus = NewEvents

\* pool.seekRead(offset): throws when no item contains the offset
CacheSeekRead(offset) ==
  LET target == FirstContaining(cache.items, cache.head, offset)
  IN  /\ cache' = IF target = 0 THEN cache ELSE seekRead(cache, offset)
      /\ cop' = [cop EXCEPT !.op = "seekRead", !.arg = offset,
                            !.ok = (target # 0), !.out = << >>,
                            !.order = IF @ = "writes" /\ offset = 0
                                      THEN "sought" ELSE "mixed"]
      /\ UNCHANGED << coord, backend, bk, ops, refused, bus >>

\* pool.seekWrite(offset)
CacheSeekWrite(offset) ==
  LET target == FirstContaining(cache.items, cache.head, offset)
  IN  /\ cache' = IF target = 0 THEN cache ELSE seekWrite(cache, offset)
      /\ cop' = [cop EXCEPT !.op = "seekWrite", !.arg = offset,
                            !.ok = (target # 0), !.out = << >>,
                            !.order = IF @ = "writes" THEN @ ELSE "mixed"]
      /\ UNCHANGED << coord, backend, bk, ops, refused, bus >>

\* pool.write(buffer) with the n bytes of the file at the write offset: it
\* throws before it changes anything when the buffer does not fit
CacheWrite(n) ==
  LET w == cache.writeOffset
      fits == WriteFits(cache, n)
  IN  /\ w + n <= PoolEnd
      /\ cache' = IF fits THEN Write(cache, FileBytes(w, w + n)) ELSE cache
      /\ cop' = [cop EXCEPT !.op = "write", !.arg = n, !.ok = fits,
                            !.out = << >>,
                            !.written = IF fits THEN @ \cup (w..(w + n - 1))
                                        ELSE @,
                            !.order = IF @ = "writes" THEN @ ELSE "mixed"]
      /\ UNCHANGED << coord, backend, bk, ops, refused, bus >>

\* pool.readBytes(dest) with a destination of nbytes bytes
CacheReadBytes(nbytes) ==
  LET r == readBytes(cache, nbytes)
  IN  /\ cache' = r.pool
      /\ cop' = [cop EXCEPT !.op = "readBytes", !.arg = nbytes, !.ok = TRUE,
                            !.out = r.out,
                            !.order = IF @ = "sought" THEN "read" ELSE "mixed"]
      /\ UNCHANGED << coord, backend, bk, ops, refused, bus >>

NextCache ==
  \/ \E offset \in 0..PoolEnd : CacheSeekRead(offset)
  \/ \E offset \in 0..PoolEnd : CacheSeekWrite(offset)
  \/ \E n \in WriteSizes : CacheWrite(n)
  \/ \E nbytes \in 0..PoolEnd : CacheReadBytes(nbytes)

SpecCache == InitCache /\ [][NextCache]_vars

\* ------------------------------------- a client that also asks the pool
\* The same client, which between its operations also calls the methods
\* that only report: bytesReadable, bytesWritable and ranges.

\* the `max` arguments passed (Infinity is the default)
Maxes == {0, 1, ChunkSize, Infinity}

\* pool.bytesReadable(max)
CacheBytesReadable(max) ==
  /\ cop' = [cop EXCEPT !.op = "bytesReadable", !.arg = max, !.ok = TRUE,
                        !.out = << bytesReadable(cache, max) >>]
  /\ UNCHANGED << cache, coord, backend, bk, ops, refused, bus >>

\* pool.bytesWritable(max)
CacheBytesWritable(max) ==
  /\ cop' = [cop EXCEPT !.op = "bytesWritable", !.arg = max, !.ok = TRUE,
                        !.out = << bytesWritable(cache, max) >>]
  /\ UNCHANGED << cache, coord, backend, bk, ops, refused, bus >>

\* pool.ranges()
CacheRanges ==
  /\ cop' = [cop EXCEPT !.op = "ranges", !.arg = 0, !.ok = TRUE,
                        !.out = ranges(cache)]
  /\ UNCHANGED << cache, coord, backend, bk, ops, refused, bus >>

NextQuery ==
  \/ NextCache
  \/ \E max \in Maxes : CacheBytesReadable(max)
  \/ \E max \in Maxes : CacheBytesWritable(max)
  \/ CacheRanges

SpecQuery == InitCache /\ [][NextQuery]_vars

\* ---------------------------------------------------------------- claims
\* C1: when buffer(n) resolves for a client that called it on a loaded
\* idle stream, bytes_available() is at least min(n, L - o), o being the
\* read offset and L the length, whatever reads, readaheads and seeks came
\* before.
ClaimC1 ==
  \A s \in 1..MaxOps :
    (ops[s].kind = "buffer" /\ ops[s].pc = "resolved")
      => bytesAvailable(cache, Infinity)
           >= Min(ops[s].n, length - cache.readOffset)

\* C2: a read(n) that resolves at read offset o returns exactly the bytes
\* F[o, o + k) with k = min(n, L - o) and moves the read offset to o + k,
\* when no abort and no network error came before.
ClaimC2 ==
  [][\A s \in 1..MaxOps :
       (ops[s].kind = "read" /\ ops[s].pc = "readsync"
          /\ ops'[s].pc = "resolved")
         => LET o == cache.readOffset
                k == Min(ops[s].n, length - o)
            IN  /\ ops'[s].out = FileBytes(o, o + k)
                /\ cache'.readOffset = o + k]_vars

\* C3: abort() is synchronous: right after it loading, seeking and
\* buffering are all false and no backend is held; and idempotent: with
\* no backend held, as after an abort(), it changes nothing.
ClaimC3 ==
  [][Abort => /\ ~loading' /\ ~seeking' /\ ~buffering' /\ backend' = 0
              /\ (backend = 0 => UNCHANGED << cache, coord, backend, bk >>)]_vars

\* C4: a promise of load, seek, buffer or read that was pending when
\* abort() was called is rejected with AbortError: it is never resolved
\* and never left unsettled.
ClaimC4 ==
  \A s \in 1..MaxOps :
    (ops[s].ab /\ ~Pending(ops[s]))
      => (ops[s].pc = "rejected" /\ ops[s].err = "abort")

\* C5: the stream stays usable after a cancellation: once abort() has been
\* called on a read() that had not completed, seek(0) is accepted: it
\* passes the tests of seek, no phase flag being left set.
ClaimC5 ==
  \A s \in 1..MaxOps :
    (ops[s].kind = "read" /\ ops[s].ab) => SeekOk(0)

\* C6: at most one of loading, seeking and buffering is true in every
\* state, whatever the interleaving of calls and backend events.
TheoremC6 ==
  Cardinality({f \in {"loading", "seeking", "buffering"} :
                 \/ f = "loading" /\ loading
                 \/ f = "seeking" /\ seeking
                 \/ f = "buffering" /\ buffering}) <= 1

\* a buffer or read is under way on a loaded stream, waiting for a request
\* that streams, and a second buffer or read has just been refused
WitnessC6 ==
  /\ buffering /\ loaded /\ refused \in {"buffer", "read"}
  /\ \E s \in 1..MaxOps : ops[s].pc = "wait" /\ bk[ops[s].b].xhr = "open"

\* C7: at most one backend has a request in flight, and it is the one the
\* coordinator holds: a backend is created only when none is held and one
\* that is no longer held is done, failed or aborted.
TheoremC7 ==
  \A b \in 1..MaxBackends : Live(bk[b]) => b = backend

\* a request in flight that is not the first one: it starts past offset 0
WitnessC7 ==
  backend # 0 /\ Live(bk[backend]) /\ bk[backend].offset > 0

\* C8: when load() resolves the stream is loaded and no longer loading,
\* and seekable, length and headers are what the headers of the first
\* response said (a 206 response for a file of FileLen bytes), even if the
\* first backend is done and dropped by then.
TheoremC8 ==
  \A s \in 1..MaxOps :
    (ops[s].kind = "load" /\ ops[s].pc = "resolved")
      => /\ loaded /\ ~loading
         /\ seekable /\ length = FileLen /\ headers = "origin"

\* load() resolves after its backend finished and was dropped, abort()
\* not having been called
WitnessC8 ==
  \E s \in 1..MaxOps :
    /\ ops[s].kind = "load" /\ ops[s].pc = "resolved" /\ ~ops[s].ab
    /\ backend = 0

\* C9: a load or buffer promise whose request failed, by a transport error
\* or an HTTP status outside [200, 300), is rejected: it is not left
\* unsettled.
ClaimC9 ==
  \A s \in 1..MaxOps :
    (ops[s].kind \in {"load", "buffer"} /\ ops[s].pc = "never")
      => ops[s].err \notin {"httperror", "neterror"}

\* C10 as stated: at the moment any promise of load, buffer or read
\* settles without an abort, by resolution or by rejection with a non-abort
\* error, loading and buffering are both false; on rejection loaded is
\* unchanged and the coordinator holds no reference to the failed backend.
ClaimC10 ==
  /\ \A s \in 1..MaxOps :
       (Settled(ops[s]) /\ ops[s].kind \in {"load", "buffer", "read"}
          /\ ~ops[s].ab)
         => /\ ~loading /\ ~buffering
            /\ ops[s].pc = "rejected"
                 => /\ loaded <=> ops[s].kind # "load"
                    /\ ops[s].b # 0 => backend # ops[s].b
  /\ refused \in {"load", "buffer", "read"} => ~loading /\ ~buffering

\* C10 amended: the same for every promise of load, buffer or read that is
\* not rejected by a state test (of load, of buffer or of readSync).  A call
\* refused by the state test leaves the flags to the operation in progress.
TheoremC10 ==
  \A s \in 1..MaxOps :
    (/\ Settled(ops[s]) /\ ops[s].kind \in {"load", "buffer", "read"}
     /\ ~ops[s].ab /\ ops[s].err # "state")
      => /\ ~loading /\ ~buffering
         /\ ops[s].pc = "rejected"
              => /\ loaded <=> ops[s].kind # "load"
                 /\ ops[s].b # 0 => backend # ops[s].b

\* a buffer or read is rejected by a transport error while the body streams
WitnessC10 ==
  \E s \in 1..MaxOps :
    /\ ops[s].kind \in {"buffer", "read"} /\ ops[s].pc = "rejected"
    /\ ops[s].err = "stream" /\ ~ops[s].ab /\ ops[s].b # 0

TheoremC12 ==
  [][\A offset \in SeekOffsets :
       ((SeekCall(offset) \/ RefusedSeek(offset))
          /\ (\/ offset < 0
              \/ (length >= 0 /\ offset > length)
              \/ ~seekable))
         => /\ refused' = "seek"
            /\ cache' = cache /\ backend' = backend
            /\ backend # 0 => bk'[backend] = bk[backend]]_vars

\* a seek has just been refused on a stream that is not seekable, whose
\* request is streaming and whose read head has moved on
WitnessC12 ==
  /\ refused = "seek" /\ ~seekable
  /\ backend # 0 /\ Live(bk[backend]) /\ cache.readOffset > 0

TheoremC14 ==
  LET items == cache.items
      n == Len(items)
  IN  /\ n >= 1
      /\ cache.head = 1 /\ cache.tail = n
      /\ items[cache.head].start = 0
      /\ \A i \in 1..(n - 1) : items[i].end = items[i + 1].start
      /\ \A i \in 1..n : items[i].start <= items[i].end
      /\ \A i \in 1..n : items[i].eof <=> i = n

\* a write with a gc pass that evicted has left three items before the Eof
WitnessC14 ==
  /\ cop.op = "write" /\ cop.ok
  /\ Len(cache.items) >= 4
  /\ \E i \in 1..Len(cache.items) :
       /\ cache.items[i].empty /\ ~cache.items[i].eof
       /\ cache.items[i].start \in cop.written

\* ------------------------------------------------------------------ C15
\* C15: after every operation a client makes on the pool no two neighbouring
\* items are both empty: a hole is never next to another hole nor next to
\* the Eof item, also after a write whose gc pass evicts items and after a
\* sparse write placed beyond the Eof item.
ClaimC15 ==
  \A i \in 1..(Len(cache.items) - 1) :
    ~(cache.items[i].empty /\ cache.items[i + 1].empty)

\* ------------------------------------------------------------------ C16
\* C16: after every operation a client makes on the pool both cursors are
\* items of the list and contain their offsets, and a seekRead or seekWrite
\* to any offset >= 0 returns with the offset and the cursor moved there
\* (the Eof item contains every offset from its start on), also after gc
\* has replaced or merged the items the cursors were on.
TheoremC16 ==
  /\ cache.readCursor \in 1..Len(cache.items)
  /\ cache.writeCursor \in 1..Len(cache.items)
  /\ Contains(cache.items[cache.readCursor], cache.readOffset)
  /\ Contains(cache.items[cache.writeCursor], cache.writeOffset)
  /\ cop.op = "seekRead" => cop.ok /\ cache.readOffset = cop.arg
  /\ cop.op = "seekWrite" => cop.ok /\ cache.writeOffset = cop.arg

\* gc has merged evicted items into the hole under the write cursor, and
\* the read cursor is on the Eof item beyond its start
WitnessC16 ==
  /\ cop.op = "write" /\ cop.ok
  /\ LET cur == cache.items[cache.writeCursor]
     IN  /\ cur.empty /\ ~cur.eof /\ cur.start < cache.writeOffset
         /\ {cur.start, cur.end - 1} \subseteq cop.written
  /\ cache.items[cache.readCursor].eof
  /\ cache.readOffset > cache.items[cache.readCursor].start

ClaimC18 ==
  [][cop'.op = "write" =>
       LET w == cache.writeOffset
           n == cop'.arg
           fits == \A o \in w..(w + n - 1) : ByteAt(cache, o) = 0
       IN  /\ cop'.ok <=> fits
           /\ ~cop'.ok => cache' = cache]_vars

\* ------------------------------------------------------------------ C19
\* C19: after writes that are pairwise disjoint and together cover [0, N),
\* made in any order with a seekWrite before each, seekRead(0) followed by
\* readBytes of N bytes returns the bytes written, arranged by offset,
\* whatever the order of the writes was.
TheoremC19 ==
  [][(/\ cop'.op = "readBytes" /\ cop'.order = "read"
      /\ cop'.arg >= 1 /\ cop.written = 0..(cop'.arg - 1))
       => cop'.out = FileBytes(0, cop'.arg)]_vars

\* the whole of [0, PoolEnd) has been read back from three or more items,
\* the last of them written before the end of the range
WitnessC19 ==
  /\ cop.op = "readBytes" /\ cop.order = "read" /\ cop.arg = PoolEnd
  /\ cop.written = 0..(PoolEnd - 1)
  /\ Len(cop.out) = PoolEnd
  /\ Len(cache.items) >= 4
  /\ cache.writeOffset < PoolEnd

\* ------------------------------------------------------------------ C20
\* C20: readBytes into a destination of n bytes copies exactly
\* k = min(n, bytesReadable()) bytes, the cached bytes at
\* [readOffset, readOffset + k), from as many adjacent filled items as it
\* takes; it advances the read offset by exactly k, also when the read ends
\* where the filled run ends, and never reads across a hole: with the read
\* cursor on a hole or on the Eof item it copies nothing and leaves the
\* read offset where it was.
TheoremC20 ==
  [][cop'.op = "readBytes" =>
       LET r == cache.readOffset
           n == cop'.arg
           k == CHOOSE m \in 0..n :
                  /\ \A o \in r..(r + m - 1) : ByteAt(cache, o) # 0
                  /\ m = n \/ ByteAt(cache, r + m) = 0
       IN  /\ Len(cop'.out) = k
           /\ \A j \in 1..k : cop'.out[j] = ByteAt(cache, r + j - 1)
           /\ cache'.readOffset = r + k
           /\ cache.items[cache.readCursor].empty
                => cop'.out = << >> /\ cache'.readOffset = r]_vars

\* a read that asked for more than the run has came back with the bytes of
\* two items and has left the read cursor on the hole behind them
WitnessC20 ==
  /\ cop.op = "readBytes" /\ cop.arg > Len(cop.out)
  /\ cache.readCursor > 2
  /\ LET cur == cache.items[cache.readCursor]
         a == cache.items[cache.readCursor - 2]
         b == cache.items[cache.readCursor - 1]
     IN  /\ cur.empty /\ ~cur.eof /\ cur.start = cache.readOffset
         /\ ~a.empty /\ ~b.empty
         /\ Len(cop.out) > ItemLength(b)

\* ------------------------------------------------------------------ C21
\* C21: bytesReadable(max) is the smaller of max and the length of the
\* longest run of cached bytes that starts at the read offset; it is 0 with
\* the read cursor on a hole or on the Eof item; it changes nothing in the
\* pool (list, offsets, cursors, timestamps); and it does not decrease when
\* max grows.
TheoremC21 ==
  [][cop'.op = "bytesReadable" =>
       LET r == cache.readOffset
           max == cop'.arg
           k == CHOOSE m \in 0..max :
                  /\ \A o \in r..(r + m - 1) : ByteAt(cache, o) # 0
                  /\ m = max \/ ByteAt(cache, r + m) = 0
       IN  /\ cop'.out = << k >>
           /\ cache.items[cache.readCursor].empty => cop'.out = << 0 >>
           /\ cache' = cache
           /\ \A m \in 0..max : bytesReadable(cache, m) <= cop'.out[1]]_vars

\* asked without a limit, the pool has reported a run of two items that
\* ends at empty space, from a read offset inside the first of them
WitnessC21 ==
  /\ cop.op = "bytesReadable" /\ cop.arg = Infinity
  /\ cache.readCursor + 2 <= Len(cache.items)
  /\ LET a == cache.items[cache.readCursor]
         b == cache.items[cache.readCursor + 1]
         c == cache.items[cache.readCursor + 2]
     IN  /\ ~a.empty /\ ~b.empty /\ c.empty
         /\ a.start < cache.readOffset
         /\ cop.out = << b.end - cache.readOffset >>

\* ------------------------------------------------------------------ C22
\* C22: bytesWritable(max) is the smaller of max and the length of the run
\* of empty space that starts at the write offset, in which the Eof item
\* counts as space without end: 0 with the write cursor on a filled item,
\* max with the write cursor on the Eof item, and max too with the write
\* cursor on a hole whose run goes straight on into the Eof item.
ClaimC22 ==
  [][cop'.op = "bytesWritable" =>
       LET w == cache.writeOffset
           max == cop'.arg
           k == CHOOSE m \in 0..max :
                  /\ \A o \in w..(w + m - 1) : ByteAt(cache, o) = 0
                  /\ m = max \/ ByteAt(cache, w + m) # 0
       IN  cop'.out = << k >>]_vars

\* ------------------------------------------------------------------ C23
\* C23: in every state a client can bring the pool to, ranges() returns
\* pairs [start, end) sorted by start, disjoint and not touching (each a
\* longest run), whose union is exactly the set of cached offsets; it
\* returns no pair when nothing is cached.
TheoremC23 ==
  cop.op = "ranges" =>
    LET R == cop.out
    IN  /\ \A i \in 1..Len(R) : R[i][1] < R[i][2] /\ R[i][2] <= PoolEnd
        /\ \A i \in 1..(Len(R) - 1) : R[i][2] < R[i + 1][1]
        /\ \A o \in 0..PoolEnd :
             ByteAt(cache, o) # 0
               <=> \E i \in 1..Len(R) : R[i][1] <= o /\ o < R[i][2]
        /\ CachedBytes(cache) = 0 => R = << >>

\* two ranges have been reported for three or more filled items
WitnessC23 ==
  /\ cop.op = "ranges" /\ Len(cop.out) = 2
  /\ Cardinality({i \in 1..Len(cache.items) : ~cache.items[i].empty}) >= 3

\* ------------------------------------------------------------------ C24
\* C24: with cacheSize > 0, after every write (after its gc pass) either the
\* cached bytes total at most cacheSize or every filled item left meets the
\* hot window from the read offset to the read offset plus the chunk size;
\* in particular a filled item that lies wholly behind the window is evicted
\* when the pool is over its cap.  An item is taken to meet the window
\* unless it ends below the read offset or starts above the end of the
\* window, as in the candidate test.
ClaimC24 ==
  [][(cop'.op = "write" /\ cop'.ok /\ cache.cacheSize > 0) =>
       \/ CachedBytes(cache') <= cache'.cacheSize
       \/ \A i \in 1..Len(cache'.items) :
            ~cache'.items[i].empty =>
              ~ \/ cache'.items[i].end < cache'.readOffset
                \/ cache'.items[i].start > cache'.readOffset + ChunkSize]_vars

\* ------------------------------------------------------------------ C25
\* C25: with cacheSize = 0 the pool has no cap: no write ever evicts an
\* item, so every byte ever written stays cached whatever the client does
\* with seekRead, seekWrite, write and readBytes.
ClaimC25 ==
  cache.cacheSize = 0 => \A o \in cop.written : ByteAt(cache, o) # 0

\* ------------------------------------------------------------------ C26
\* C26: when a 206 response starts elsewhere than the offset asked for, the
\* cachever of the backend and of the coordinator go up by one (to 1 or
\* more), the request is sent again for the same range, the cache is left
\* as it was, and every pending promise stays pending, to settle when the
\* second request is answered.
ClaimC26 ==
  [][\A b \in 1..MaxBackends :
       BackendWrongRange(b) =>
         /\ cachever' = cachever + 1
         /\ bk'[b].cachever = bk[b].cachever + 1 /\ bk'[b].cachever >= 1
         /\ bk'[b].xhr = "sent"
         /\ bk'[b].offset = bk[b].offset /\ bk'[b].length = bk[b].length
         /\ cache' = cache
         /\ \A s \in 1..MaxOps : Pending(ops[s]) => ops'[s] = ops[s]]_vars

\* ------------------------------------------------------------------ C27
\* C27: the gc pass never evicts a filled item that meets the hot window
\* from the read offset to the read offset plus the chunk size (an item
\* meets it unless it ends below the read offset or starts above the end of
\* the window): such an item, the one just written included, is still
\* cached with its bytes when write returns.  Hence a write never makes
\* bytesReadable() at the read offset smaller.
TheoremC27 ==
  [][(cop'.op = "write" /\ cop'.ok) =>
       LET r == cache.readOffset
           w == cache.writeOffset
           n == cop'.arg
           hot(a, b) == ~(b < r \/ a > r + ChunkSize)
       IN  /\ \A i \in 1..Len(cache.items) :
                (~cache.items[i].empty
                   /\ hot(cache.items[i].start, cache.items[i].end))
                  => \E j \in 1..Len(cache'.items) :
                       /\ cache'.items[j].start = cache.items[i].start
                       /\ cache'.items[j].end = cache.items[i].end
                       /\ cache'.items[j].data = cache.items[i].data
           /\ hot(w, w + n)
                => \A o \in w..(w + n - 1) : ByteAt(cache', o) = FileByte(o)
           /\ bytesReadable(cache', Infinity) >= bytesReadable(cache, Infinity)]_vars

\* a write has returned with the pool over its cap: gc has evicted what lay
\* below the read offset and has kept the bytes readable from it
WitnessC27 ==
  /\ cop.op = "write" /\ cop.ok
  /\ cache.cacheSize > 0 /\ CachedBytes(cache) > cache.cacheSize
  /\ \E o \in cop.written : o < cache.readOffset /\ ByteAt(cache, o) = 0
  /\ bytesReadable(cache, Infinity) > 0

\* ------------------------------------------------------------------ C28
\* C28: when the gc pass of a write evicts, it goes by timestamp, oldest
\* first, and stops as soon as the cached bytes total at most cacheSize: no
\* candidate is evicted while a candidate with a strictly older timestamp
\* stays cached, and nothing is evicted once the running total is within
\* the cap; the range of every evicted item is a hole afterwards, and the
\* pass moves neither the read offset nor the write offset.  The candidates
\* are the filled items that end below the read offset, the item just
\* written (the newest) among them.
TheoremC28 ==
  [][(cop'.op = "write" /\ cop'.ok) =>
       LET r == cache.readOffset
           w == cache.writeOffset
           n == cop'.arg
           old == {i \in 1..Len(cache.items) : ~cache.items[i].empty}
           \* the filled items before the pass, as << start, end, timestamp >>
           before == {<< cache.items[i].start, cache.items[i].end,
                         cache.items[i].ts >> : i \in old}
                       \cup {<< w, w + n, Now(cache) >>}
           kept(x) == FilledAt(cache', x[1]) # 0
           cands == {x \in before : x[2] < r}
           evicted == {x \in before : ~kept(x)}
       IN  /\ evicted \subseteq cands
           /\ \A e \in evicted : \A k \in cands : kept(k) => ~(k[3] < e[3])
           /\ evicted # {} =>
                \E e \in evicted :
                  /\ \A x \in evicted : x[3] <= e[3]
                  /\ CachedBytes(cache') + (e[2] - e[1]) > cache.cacheSize
           /\ \A e \in evicted :
                \E j \in 1..Len(cache'.items) :
                  /\ cache'.items[j].empty /\ ~cache'.items[j].eof
                  /\ cache'.items[j].start <= e[1]
                  /\ e[2] <= cache'.items[j].end
           /\ cache'.readOffset = r
           /\ cache'.writeOffset = w + n]_vars

\* a pass has stopped half way: an older item below the read offset is
\* gone, a newer one below the read offset is still cached, and the pool is
\* within its cap
WitnessC28 ==
  /\ cop.op = "write" /\ cop.ok
  /\ cache.cacheSize > 0 /\ CachedBytes(cache) <= cache.cacheSize
  /\ \E o \in cop.written : o < cache.readOffset /\ ByteAt(cache, o) = 0
  /\ \E i \in 1..Len(cache.items) :
       ~cache.items[i].empty /\ cache.items[i].end < cache.readOffset

ClaimC30 ==
  cache.writeCursor # 0 /\ cache.items[cache.writeCursor].empty

\* ------------------------------------------------------------------ C31
\* C31: no filled item of length zero is ever in the list; after a 'buffer'
\* event with an empty buffer the list still ends with the Eof item, both
\* cursors are on an item and no filled item has length zero.
ClaimC31 ==
  /\ cache.items[Len(cache.items)].eof
  /\ cache.readCursor # 0 /\ cache.writeCursor # 0
  /\ \A i \in 1..Len(cache.items) :
       ~cache.items[i].empty => cache.items[i].end > cache.items[i].start

\* ------------------------------------------------------------------ C32
\* C32: a 'buffer' or 'done' event of a backend that is not the current one
\* of the coordinator leaves the cache, length and the current backend as
\* they are; the cache changes on a 'buffer' event only if it comes from
\* the current backend.
TheoremC32 ==
  [][\A b \in 1..MaxBackends :
       (/\ b # backend
        /\ \/ \E k \in 1..ChunkSize : BackendProgress(b, k)
           \/ BackendDone(b))
         => /\ cache' = cache
            /\ length' = length
            /\ backend' = backend]_vars

\* a backend that the coordinator has dropped and replaced has delivered
\* bytes that the cache could have taken at its write head, and the cache
\* holds none of them
WitnessC32 ==
  \E b \in 1..MaxBackends :
    /\ backend # 0 /\ b # backend
    /\ bk[b].hooked /\ bk[b].xhr = "open" /\ bk[b].bytesRead > 0
    /\ bk[backend].xhr = "open"
    /\ WriteFits(cache, 1)
    /\ \A o \in bk[b].offset..(bk[b].offset + bk[b].bytesRead - 1) :
         ByteAt(cache, o) = 0

\* ------------------------------------------------------------------ C33
\* C33: every request the coordinator starts is for a range [s, s + w)
\* where s is the read offset plus bytesReadable(chunkSize) at that
\* moment, 0 < w <= chunkSize, no byte of the range is cached and, with a
\* known length, s + w <= length; none is started while another request is
\* current, at end of file, or when the read tail has reached length.
ClaimC33 ==
  [][\A b \in 1..MaxBackends :
       (bk[b].xhr # "sent" /\ bk'[b].xhr = "sent") =>
         LET s == bk'[b].offset
             w == bk'[b].length
         IN  /\ backend' = b
             /\ backend # 0 => ~Live(bk'[backend])
             /\ s = cache'.readOffset + bytesReadable(cache', ChunkSize)
             /\ 0 < w /\ w <= ChunkSize
             /\ \A o \in s..(s + w - 1) : ByteAt(cache', o) = 0
             /\ length >= 0 => s + w <= length
             /\ length # cache'.readOffset
             /\ length >= 0 => s < length]_vars

\* ------------------------------------------------------------------ C34
\* C34: when the current backend emits 'done' while length is -1, length
\* becomes the offset of the backend plus the bytes it has read; with a
\* known length 'done' leaves length alone; either way the backend is
\* dropped.  A length that is known never changes.
ClaimC34 ==
  [][/\ length >= 0 => length' = length
     /\ \A b \in 1..MaxBackends :
          (BackendDone(b) /\ b = backend) =>
            /\ backend' = 0
            /\ length = -1 => length' = bk[b].offset + bk[b].bytesRead
            /\ length >= 0 => length' = length]_vars

\* C34 as the code has it: the then() of load assigns the length of the
\* headers whatever 'done' has stored before it ran, so a known length is
\* final once the stream is loaded.
TheoremC34 ==
  [][/\ (loaded /\ length >= 0) => length' = length
     /\ \A b \in 1..MaxBackends :
          (BackendDone(b) /\ b = backend) =>
            /\ backend' = 0
            /\ length = -1 => length' = bk[b].offset + bk[b].bytesRead
            /\ length >= 0 => length' = length]_vars

\* the first request has ended before the then() of load has run: 'done'
\* has found length at -1, has set it to the end of the range and has
\* dropped the backend
WitnessC34 ==
  /\ loading /\ ~loaded /\ backend = 0
  /\ length = ChunkSize
  /\ \E s \in 1..MaxOps : ops[s].kind = "load" /\ ops[s].pc = "opened"

NextLive ==
  \/ NextSeq
  \/ \E s \in 1..MaxOps : BufferCatch(s)
  \/ \E b \in 1..MaxBackends : BackendError(b)

\* the next event of the request of backend b
BackendEvent(b) ==
  \/ BackendOpen(b)
  \/ BackendError(b)
  \/ BackendDone(b)
  \/ \E k \in 1..ChunkSize : BackendProgress(b, k)

\* the continuation of buffer that is due for the promise in slot s, or
\* the then() of load
Continuation(s) ==
  \/ LoadSettle(s)
  \/ BufferOpened(s)
  \/ BufferWaited(s)
  \/ BufferFinal(s)
  \/ BufferCatch(s)

\* the then() of read is due for the promise in slot s; ReadThen(s) is
\* enabled exactly then, and it settles the promise
ReadThenDue(s) == ops[s].kind = "read" /\ ops[s].pc = "readsync"

\* every continuation that is due runs, and every request in flight gets
\* its next event.  Weak fairness of ReadThen(s) is written with its
\* enabling condition spelled out.
SpecLive ==
  /\ Init /\ [][NextLive]_vars
  /\ \A s \in 1..MaxOps : WF_vars(Continuation(s))
  /\ \A s \in 1..MaxOps : []<>(~ReadThenDue(s)) \/ []<><<ReadThen(s)>>_vars
  /\ \A b \in 1..MaxBackends : WF_vars(BackendEvent(b))

\* C36: over requests that emit their events and without abort(), every
\* promise of buffer(n) and of read(n) settles in the end.
ClaimC36 ==
  \A s \in 1..MaxOps :
    (ops[s].kind \in {"buffer", "read"} /\ Pending(ops[s]))
      ~> (ops[s].kind \in {"buffer", "read"} /\ Settled(ops[s]))

\* ------------------------------------------------------------------ C37
\* the item under the write cursor, by its range
WriteItem(c) ==
  IF c.writeCursor = 0 THEN << >>
  ELSE << c.items[c.writeCursor].start, c.items[c.writeCursor].end,
          c.items[c.writeCursor].empty, c.items[c.writeCursor].eof >>

ReadaheadFails(b) ==
  /\ b = backend
  /\ \A s \in 1..MaxOps :
       (Pending(ops[s]) /\ ops[s].b = b) => ops[s].kind = "seek"
  /\ \/ BackendHttpError(b)
     \/ BackendNetError(b)
     \/ BackendError(b)

\* C38: when a readahead request fails, no promise of seek is waiting on
\* it (seek has resolved once the cursors were placed), no phase flag
\* changes and the backend is dropped, so that the next buffer() or read()
\* opens a new one.
ClaimC38 ==
  [][\A b \in 1..MaxBackends :
       ReadaheadFails(b) =>
         /\ \A s \in 1..MaxOps :
              ~(ops[s].kind = "seek" /\ Pending(ops[s]) /\ ops[s].b = b)
         /\ loaded' = loaded /\ loading' = loading
         /\ buffering' = buffering /\ seeking' = seeking
         /\ backend' = 0]_vars

\* ------------------------------------------------------------------ C39
\* a step that calls abort() of the current backend b while its request is
\* in flight: StreamFile.abort, or a seek that finds a backend in place
AbortsBackend(b) ==
  /\ b = backend /\ Live(bk[b])
  /\ \/ Abort
     \/ \E offset \in 0..FileLen : SeekCall(offset)

\* C39: abort() of a backend ends its request, hands the AbortError to the
\* promise of Backend.load while that is pending (_onAbort is armed until
\* 'open') and to every bufferToOffset that waits on the backend, and hands
\* out nothing else.
ClaimC39 ==
  [][\A b \in 1..MaxBackends :
       AbortsBackend(b) =>
         /\ ~Live(bk'[b])
         /\ ~bk'[b].onAbort
         /\ \A s \in 1..MaxOps :
              IF Pending(ops[s]) /\ ops[s].pc = "wait" /\ ops[s].b = b
              THEN ops'[s].pc \in {"catch", "rejected"}
              ELSE Pending(ops[s]) => ops'[s].pc \in {"never", ops[s].pc}]_vars

\* ------------------------------------------------------------------ C40
\* a client of a TinyEvents object of its own
EventsOn(name, handler) ==
  /\ Len(bus.e[name]) < MaxListeners
  /\ bus' = [bus EXCEPT !.e = on(@, name, handler),
                        !.regs[name][handler] = @ + 1]
  /\ UNCHANGED << cache, coord, backend, bk, ops, refused, cop >>

EventsOff(name, handler) ==
  /\ bus' = [bus EXCEPT !.e = off(@, name, handler),
                        !.regs[name][handler] = IF @ > 0 THEN @ - 1 ELSE 0]
  /\ UNCHANGED << cache, coord, backend, bk, ops, refused, cop >>

EventsEmit(name) ==
  /\ bus' = [bus EXCEPT !.name = name, !.log = emit(bus.e, name)]
  /\ UNCHANGED << cache, coord, backend, bk, ops, refused, cop >>

NextEvents ==
  \/ \E name \in Names : \E handler \in Handlers : EventsOn(name, handler)
  \/ \E name \in Names : \E handler \in Handlers : EventsOff(name, handler)
  \/ \E name \in Names : EventsEmit(name)

SpecEvents == Init /\ [][NextEvents]_vars

\* C40: emit(name) calls no handler whose registrations for the name have
\* all been taken back with off(), and calls the handlers that are still
\* registered in the order of their registration.
ClaimC40 ==
  [][\A name \in Names :
       EventsEmit(name) =>
         LET Kept(h) == bus.regs[name][h] > 0
         IN  /\ \A i \in 1..Len(bus'.log) : Kept(bus'.log[i])
             /\ SelectSeq(bus'.log, Kept) = SelectSeq(bus.e[name], Kept)
             /\ \A h \in Handlers :
                  Kept(h) => \E i \in 1..Len(bus'.log) : bus'.log[i] = h]_vars

====
